---- MODULE Spec2Model ----
(***************************************************************************)
(* Model of packages/common/src/webrtc/helpers.ts:                         *)
(*   mungeLayoutList (with _layoutReducer, _layoutCompare),                *)
(*   mutateCanvasInfoData and getMediaConstraints.                         *)
(*                                                                         *)
(* JavaScript strings are sequences of one-character strings; Code gives   *)
(* the UTF-16 code unit of a character, so that the relational operators   *)
(* on strings and toLowerCase are computed as the engine computes them.    *)
(* JavaScript values that may be undefined/null are tagged records.        *)
(***************************************************************************)
EXTENDS Integers, Sequences, FiniteSets, TLC

VARIABLES
  \* ---- mungeLayoutList ----
  layouts,        \* argument: IVertoLayout[]
  layoutGroups,   \* argument: IVertoLayout[]
  mungePc,        \* "call" before the call, "done" after it returned
  mungeResult,    \* the returned ILayout[]
  \* ---- mutateCanvasInfoData ----
  canvasInfo,     \* argument: IVertoCanvasInfo
  canvasPc,       \* "call" | "done"
  canvasOutcome,  \* how the call ended and the value it returned
  \* ---- getMediaConstraints ----
  options,        \* argument: CallOptions (audio/video hold booleans or references)
  heap,           \* the constraint objects, by reference
  heap0,          \* the caller's constraint objects as they were at the call
  pc,             \* position of the async function
  audio, micId,   \* locals of line 32
  video, camId,   \* locals of line 44
  micLookup,      \* promise of assureDeviceId(micId, micLabel, AudioIn)
  camLookup,      \* promise of assureDeviceId(camId, camLabel, Video)
  calls,          \* the assureDeviceId calls issued so far, in order
  promise         \* the promise getMediaConstraints returned

mungeVars  == <<layouts, layoutGroups, mungePc, mungeResult>>
canvasVars == <<canvasInfo, canvasPc, canvasOutcome>>
mediaVars  == <<options, heap, heap0, pc, audio, micId, video, camId,
                micLookup, camLookup, calls, promise>>
vars == <<mungeVars, canvasVars, mediaVars>>

(***************************************************************************)
(* JavaScript strings                                                      *)
(***************************************************************************)
Code ==
  (" " :> 32) @@ ("%" :> 37) @@ ("-" :> 45) @@ ("." :> 46) @@
  ("0" :> 48) @@ ("1" :> 49) @@ ("2" :> 50) @@ ("3" :> 51) @@ ("4" :> 52) @@
  ("5" :> 53) @@ ("6" :> 54) @@ ("7" :> 55) @@ ("8" :> 56) @@ ("9" :> 57) @@
  ("A" :> 65) @@ ("B" :> 66) @@ ("_" :> 95) @@ ("a" :> 97) @@ ("b" :> 98)

Chars == DOMAIN Code

CharOf(n) == CHOOSE c \in Chars : Code[c] = n

\* String.prototype.toLowerCase on one code unit (ASCII range)
LowerChar(c) == IF Code[c] >= 65 /\ Code[c] <= 90 THEN CharOf(Code[c] + 32) ELSE c

\* String.prototype.toLowerCase
ToLowerCase(s) == [i \in 1..Len(s) |-> LowerChar(s[i])]

\* name.replace(/[-_]/g, ' ')
ReplaceDashes(s) == [i \in 1..Len(s) |-> IF s[i] \in {"-", "_"} THEN " " ELSE s[i]]

\* the < operator on two strings: lexicographic on code units, a proper prefix is less
RECURSIVE StrLess(_, _)
StrLess(s, t) ==
  IF t = <<>> THEN FALSE
  ELSE IF s = <<>> THEN TRUE
  ELSE IF Code[Head(s)] < Code[Head(t)] THEN TRUE
  ELSE IF Code[Head(s)] > Code[Head(t)] THEN FALSE
  ELSE StrLess(Tail(s), Tail(t))

\* the > operator on two strings
StrGreater(s, t) == StrLess(t, s)

(***************************************************************************)
(* JavaScript values                                                       *)
(***************************************************************************)
Undefined == [t |-> "undefined"]
Null      == [t |-> "null"]
Str(s)    == [t |-> "string", s |-> s]
Arr(a)    == [t |-> "array", a |-> a]
Num(n)    == [t |-> "number", n |-> n]
Bool(b)   == [t |-> "boolean", b |-> b]

\* a promise of assureDeviceId
Idle == [state |-> "idle"]
Pending == [state |-> "pending"]
Resolved(v) == [state |-> "resolved", value |-> v]
Rejected == [state |-> "rejected"]
Settled(p) == p.state \in {"resolved", "rejected"}

\* ToBoolean on undefined | null | string
Truthy(v) == v.t = "string" /\ v.s # <<>>

\* destructuring default (`resIDS = []`, `audio = true`, `micLabel = ''`):
\* applies to undefined only, null is kept
Default(v, d) == IF v = Undefined THEN d ELSE v

(***************************************************************************)
(* mungeLayoutList                                                         *)
(***************************************************************************)
\* line 208: layout.groupLayouts || [] (undefined and null are falsy, an array is not)
OrEmpty(v) == IF v.t \in {"undefined", "null"} THEN <<>> ELSE v.a

\* line 191: displayName || name.replace(/[-_]/g, ' ')
Label(layout) ==
  IF Truthy(layout.displayName) THEN layout.displayName.s
  ELSE ReplaceDashes(layout.name)

\* lines 189-193: the entry _layoutReducer appends for one raw layout
LayoutEntry(layout) ==
  [ id |-> layout.name,
    label |-> Label(layout),
    type |-> layout.type,
    reservationIds |-> Default(layout.resIDS, Arr(<<>>)),
    belongsToAGroup |-> FALSE ]

\* lines 189-193
\* variant: an entry whose id is already in result is skipped
_layoutReducerUnique(result, layout) ==
  IF \E i \in 1..Len(result) : result[i].id = layout.name THEN result
  ELSE result \o <<LayoutEntry(layout)>>
_layoutReducer(result, layout) == result \o <<LayoutEntry(layout)>>

\* Array.prototype.reduce(_layoutReducer, [])
RECURSIVE ReduceLayouts(_, _)
ReduceLayouts(result, list) ==
  IF list = <<>> THEN result
  ELSE ReduceLayouts(_layoutReducer(result, Head(list)), Tail(list))

\* lines 195-204
\* variant: the labels compared without toLowerCase
_layoutCompareCaseSensitive(prev, next) ==
  IF StrGreater(prev.label, next.label) THEN 1
  ELSE IF StrLess(prev.label, next.label) THEN -1
  ELSE 0
_layoutCompare(prev, next) ==
  LET prevLabel == ToLowerCase(prev.label)
      nextLabel == ToLowerCase(next.label)
  IN  IF StrGreater(prevLabel, nextLabel) THEN 1
      ELSE IF StrLess(prevLabel, nextLabel) THEN -1
      ELSE 0

\* Array.prototype.sort(_layoutCompare): a stable sort (ECMAScript 2019,
\* Array.prototype.sort): x goes before the first element that compares greater
RECURSIVE InsertSorted(_, _)
InsertSorted(sorted, x) ==
  IF sorted = <<>> THEN <<x>>
  ELSE IF _layoutCompare(Head(sorted), x) > 0 THEN <<x>> \o sorted
  ELSE <<Head(sorted)>> \o InsertSorted(Tail(sorted), x)

RECURSIVE SortLayouts(_, _)
SortLayouts(sorted, rest) ==
  IF rest = <<>> THEN sorted
  ELSE SortLayouts(InsertSorted(sorted, Head(rest)), Tail(rest))

\* lines 207-209: the concatenation of every group's groupLayouts
RECURSIVE LayoutsPartOfGroup(_, _)
LayoutsPartOfGroup(cumulative, groups) ==
  IF groups = <<>> THEN cumulative
  ELSE LayoutsPartOfGroup(cumulative \o OrEmpty(Head(groups).groupLayouts), Tail(groups))

\* Array.prototype.includes
Includes(list, x) == \E i \in 1..Len(list) : list[i] = x

\* lines 211-214: normalList with belongsToAGroup assigned
\* variant: belongsToAGroup left as _layoutReducer set it
NormalListUnflagged(ls, groups) == ReduceLayouts(<<>>, ls)
NormalList(ls, groups) ==
  LET part == LayoutsPartOfGroup(<<>>, groups)
      normalList == ReduceLayouts(<<>>, ls)
  IN  [i \in 1..Len(normalList) |->
         [normalList[i] EXCEPT !.belongsToAGroup = Includes(part, normalList[i].id)]]

\* line 215
GroupList(groups) == ReduceLayouts(<<>>, groups)

\* line 216, before the sort
ConcatLists(groupList, normalList) == groupList \o normalList

\* lines 206-217
MungeLayoutListOf(ls, groups) ==
  SortLayouts(<<>>, ConcatLists(GroupList(groups), NormalList(ls, groups)))

\* the raw layouts and groups the calls are made with
MaxLayouts == 2
MaxGroups == 2

LayoutNames == { <<"a", "_">>, <<"B">>, <<"b">> }
GroupNames  == { <<"a", "_">>, <<"B">> }

RawLayouts ==
  { [type |-> "layout", name |-> n, displayName |-> Undefined, resIDS |-> Undefined]
      : n \in LayoutNames } \cup
  { [type |-> "layout", name |-> n, displayName |-> Str(<<"B">>),
     resIDS |-> Arr(<< <<"1">> >>)] : n \in LayoutNames } \cup
  { [type |-> "layout", name |-> <<"b">>, displayName |-> Undefined, resIDS |-> Null] }

RawGroups ==
  { [type |-> "layoutGroup", name |-> n, displayName |-> Undefined,
     resIDS |-> Undefined, groupLayouts |-> g]
      : n \in GroupNames,
        g \in { Undefined, Arr(<< <<"b">>, <<"b">> >>), Arr(<< <<"B">>, <<"a", "_">> >>) } }
  \cup
  { [type |-> "layoutGroup", name |-> <<"B">>, displayName |-> Undefined,
     resIDS |-> Null, groupLayouts |-> Null] }

SeqUpTo(S, n) == UNION { [1..k -> S] : k \in 0..n }

MungeInit ==
  /\ layouts \in SeqUpTo(RawLayouts, MaxLayouts)
  /\ layoutGroups \in SeqUpTo(RawGroups, MaxGroups)
  /\ mungePc = "call"
  /\ mungeResult = <<>>
  \* the other functions are not called
  /\ canvasInfo = [canvasID |-> 0, layoutFloorID |-> 0, scale |-> 1,
                   canvasLayouts |-> <<>>, layoutName |-> "none"]
  /\ canvasPc = "idle"
  /\ canvasOutcome = [status |-> "none"]
  /\ options = [audio |-> Undefined, micId |-> Undefined, micLabel |-> Undefined,
                video |-> Undefined, camId |-> Undefined, camLabel |-> Undefined]
  /\ heap = <<>>
  /\ heap0 = <<>>
  /\ pc = "idle"
  /\ audio = Undefined
  /\ micId = Undefined
  /\ video = Undefined
  /\ camId = Undefined
  /\ micLookup = Idle
  /\ camLookup = Idle
  /\ calls = <<>>
  /\ promise = [state |-> "none"]

\* lines 206-217: one call of mungeLayoutList(layouts, layoutGroups)
mungeLayoutList ==
  /\ mungePc = "call"
  /\ mungeResult' = MungeLayoutListOf(layouts, layoutGroups)
  /\ mungePc' = "done"
  /\ UNCHANGED <<layouts, layoutGroups, canvasVars, mediaVars>>

(***************************************************************************)
(* mutateCanvasInfoData                                                    *)
(***************************************************************************)
\* IEEE-754 numbers as far as the function needs them: a finite value is the
\* exact fraction n/d (d # 0); the inputs used keep the double arithmetic of
\* lines 116-119 away from a rounding boundary
Finite(n, d) == [k |-> "finite", n |-> n, d |-> d]
NaN         == [k |-> "NaN"]
PosInfinity == [k |-> "Infinity"]
NegInfinity == [k |-> "-Infinity"]

\* the / operator on two integers (lines 116-119)
Divide(a, b) ==
  IF b # 0 THEN Finite(a, b)
  ELSE IF a > 0 THEN PosInfinity
  ELSE IF a < 0 THEN NegInfinity
  ELSE NaN

\* the * 100 of lines 116-119
Times100(v) == IF v.k = "finite" THEN Finite(v.n * 100, v.d) ELSE v

Abs(i) == IF i < 0 THEN -i ELSE i
Sign(i) == IF i < 0 THEN -1 ELSE IF i > 0 THEN 1 ELSE 0

\* roundToFixed (../util/helpers): round to 2 decimals, half away from zero;
\* the result is a number of hundredths. A division that gave NaN or an
\* infinity is surfaced as it is, not coerced
roundToFixed(v) ==
  IF v.k # "finite" THEN v
  ELSE Finite(Sign(v.n) * Sign(v.d) * ((2 * 100 * Abs(v.n) + Abs(v.d)) \div (2 * Abs(v.d))), 100)

Digit(i) == CharOf(48 + i)

\* Number.prototype.toString of a non-negative integer
RECURSIVE NatToString(_)
NatToString(n) == IF n < 10 THEN <<Digit(n)>> ELSE NatToString(n \div 10) \o <<Digit(n % 10)>>

\* String(memberID) for an integer (line 120)
StringOfInt(i) == IF i < 0 THEN <<"-">> \o NatToString(-i) ELSE NatToString(i)

\* Number.prototype.toString of a number of hundredths (template literal, lines 116-119)
NumberToString(v) ==
  IF v.k = "NaN" THEN <<"N", "a", "N">>
  ELSE IF v.k = "Infinity" THEN <<"I", "n", "f", "i", "n", "i", "t", "y">>
  ELSE IF v.k = "-Infinity" THEN <<"-", "I", "n", "f", "i", "n", "i", "t", "y">>
  ELSE LET h == Abs(v.n)
           ip == h \div 100
           fp == h % 100
           frac == IF fp = 0 THEN <<>>
                   ELSE IF fp % 10 = 0 THEN <<".", Digit(fp \div 10)>>
                   ELSE <<".", Digit(fp \div 10), Digit(fp % 10)>>
       IN  (IF v.n < 0 THEN <<"-">> ELSE <<>>) \o NatToString(ip) \o frac

\* `${roundToFixed((value / scale) * 100)}%` (lines 116-119)
Percentage(value, scale) ==
  NumberToString(roundToFixed(Times100(Divide(value, scale)))) \o <<"%">>

\* layout.overlap === 1 (line 114)
\* variant: layout.overlap == 1 (loose equality)
OverlapLooselyOne(overlap) == overlap \in {Num(1), Str(<<"1">>), Bool(TRUE)}
OverlapIsOne(overlap) == overlap = Num(1)

\* object rest (`...rest` of a destructuring): the fields of obj not named
RestOf(obj, named) == [k \in (DOMAIN obj) \ named |-> obj[k]]

\* lines 113-125: the ICanvasLayout pushed for one element of canvasLayouts;
\* `...rest` is spread last (line 124), so a field of the raw layout other than
\* memberID, audioPOS, xPOS, yPOS is copied and replaces a computed field of
\* the same name
CanvasLayout(layout, scale) ==
  RestOf(layout, {"memberID", "audioPOS", "xPOS", "yPOS"}) @@
  [ startX |-> Percentage(layout.x, scale),
    startY |-> Percentage(layout.y, scale),
    percentageWidth |-> Percentage(layout.scale, scale),
    percentageHeight |-> Percentage(layout.hscale, scale),
    participantId |-> StringOfInt(layout.memberID),
    audioPos |-> layout.audioPOS,
    xPos |-> layout.xPOS,
    yPos |-> layout.yPOS ]

\* layouts.push (line 115)
Push(list, x) == Append(list, x)

\* lines 109-126: the loop, from index i on; acc is <<layouts, layoutOverlap>>
RECURSIVE CanvasLoop(_, _, _, _)
CanvasLoop(canvasLayouts, scale, i, acc) ==
  IF i > Len(canvasLayouts) THEN acc
  ELSE LET layout == canvasLayouts[i]
       IN  CanvasLoop(canvasLayouts, scale, i + 1,
             << Push(acc[1], CanvasLayout(layout, scale)),
                acc[2] \/ OverlapIsOne(layout.overlap) >>)

\* lines 107-135
MutateCanvasInfoDataOf(info) ==
  LET acc == CanvasLoop(info.canvasLayouts, info.scale, 1, <<<<>>, FALSE>>)
  IN  \* `...rest` is spread first (line 128): the fields written after it win
      [ canvasId |-> info.canvasID,
        layoutFloorId |-> info.layoutFloorID,
        scale |-> info.scale,
        canvasLayouts |-> acc[1],
        layoutOverlap |-> acc[2] ] @@
      RestOf(info, {"canvasID", "layoutFloorID", "scale", "canvasLayouts"})

MaxCanvasLayouts == 2

Scales == {-2, 0, 3, 200}
Members == { [memberID |-> 7,  audioPOS |-> "left",  xPOS |-> 1, yPOS |-> 2],
             [memberID |-> 12, audioPOS |-> "right", xPOS |-> 3, yPOS |-> 4] }
Geometries == { [x |-> 50, y |-> 0, scale |-> 1, hscale |-> 2],
                [x |-> 0, y |-> 1, scale |-> 100, hscale |-> 50] }
Overlaps == { Num(0), Num(1), Num(2), Str(<<"1">>), Undefined }

\* raw layouts of the nine usual fields
PlainCanvasLayouts ==
  { [memberID |-> m.memberID, audioPOS |-> m.audioPOS, xPOS |-> m.xPOS, yPOS |-> m.yPOS,
     x |-> g.x, y |-> g.y, scale |-> g.scale, hscale |-> g.hscale, overlap |-> o]
      : m \in Members, g \in Geometries, o \in Overlaps }

\* raw layouts with further fields: one the function does not know (zoom) and
\* one named like a field it computes (participantId)
ExtendedCanvasLayouts ==
  { [memberID |-> 7, audioPOS |-> "left", xPOS |-> 1, yPOS |-> 2,
     x |-> 50, y |-> 0, scale |-> 1, hscale |-> 2, overlap |-> o,
     zoom |-> 2, participantId |-> <<"9", "9">>] : o \in Overlaps }

RawCanvasLayouts == PlainCanvasLayouts \cup ExtendedCanvasLayouts

\* the fields of canvasInfo besides canvasID, layoutFloorID, scale, canvasLayouts
CanvasExtras == { [layoutName |-> "grid"], [layoutName |-> "grid", layoutOverlap |-> TRUE] }

CanvasInit ==
  /\ canvasInfo \in
       { [canvasID |-> 1, layoutFloorID |-> -1, scale |-> s, canvasLayouts |-> ls] @@ e
           : s \in Scales, ls \in SeqUpTo(RawCanvasLayouts, MaxCanvasLayouts),
             e \in CanvasExtras }
  /\ canvasPc = "call"
  /\ canvasOutcome = [status |-> "none"]
  \* the other functions are not called
  /\ layouts = <<>>
  /\ layoutGroups = <<>>
  /\ mungePc = "idle"
  /\ mungeResult = <<>>
  /\ options = [audio |-> Undefined, micId |-> Undefined, micLabel |-> Undefined,
                video |-> Undefined, camId |-> Undefined, camLabel |-> Undefined]
  /\ heap = <<>>
  /\ heap0 = <<>>
  /\ pc = "idle"
  /\ audio = Undefined
  /\ micId = Undefined
  /\ video = Undefined
  /\ camId = Undefined
  /\ micLookup = Idle
  /\ camLookup = Idle
  /\ calls = <<>>
  /\ promise = [state |-> "none"]

\* lines 107-135: one call of mutateCanvasInfoData(canvasInfo); the function has
\* no throw statement and no check on scale, so the call always returns
mutateCanvasInfoData ==
  /\ canvasPc = "call"
  /\ canvasOutcome' = [status |-> "returned", value |-> MutateCanvasInfoDataOf(canvasInfo)]
  /\ canvasPc' = "done"
  /\ UNCHANGED <<canvasInfo, mungeVars, mediaVars>>

(***************************************************************************)
(* getMediaConstraints                                                     *)
(***************************************************************************)
\* a reference to a constraint object of the heap
Ref(r) == [t |-> "object", r |-> r]

\* { exact: id }
Exact(id) == [t |-> "object", exact |-> id]

\* a MediaTrackConstraints object: a field holding Undefined is absent
EmptyObject == [deviceId |-> Undefined, echoCancellation |-> Undefined]

\* the promise of `assureDeviceId(...).catch(error => null)` once assureDeviceId's
\* promise p has settled (lines 35, 47)
CatchNull(p) == IF p.state = "rejected" THEN Resolved(Null) ELSE p

\* `x.deviceId = { exact: id }` on the object x refers to (lines 40, 52)
SetDeviceId(h, r, id) == [h EXCEPT ![r].deviceId = Exact(id)]

\* the frame of one call: its locals, the heap, the lookups, the promise returned
Frame == [ heap |-> heap, pc |-> pc, audio |-> audio, micId |-> micId,
           video |-> video, camId |-> camId, micLookup |-> micLookup,
           camLookup |-> camLookup, calls |-> calls, promise |-> promise ]

\* line 56: return { audio, video }
Return(f) ==
  [f EXCEPT !.promise = [state |-> "fulfilled",
                         value |-> [audio |-> f.audio, video |-> f.video]],
            !.pc = "done"]

\* an exception leaving the async function rejects its promise
Throw(f) == [f EXCEPT !.promise = [state |-> "rejected"], !.pc = "done"]

\* lines 36-42 (48-54) for one medium: value is the local audio (video), id the
\* awaited device id, fresh the reference of the object `{}` creates
Narrow(f, medium, value, id, fresh) ==
  IF ~Truthy(id) THEN f
  ELSE IF value.t = "boolean"
       THEN [f EXCEPT ![medium] = Ref(fresh),
                      !.heap = SetDeviceId(f.heap @@ (fresh :> EmptyObject), fresh, id.s)]
       ELSE [f EXCEPT !.heap = SetDeviceId(f.heap, value.r, id.s)]

\* lines 48-56, once the camera lookup has settled
AfterCam(f) ==
  LET p == CatchNull(f.camLookup)
  IN  IF p.state = "rejected" THEN Throw(f)
      ELSE Return(Narrow([f EXCEPT !.camId = p.value], "video", f.video, p.value,
                         "newVideo"))

\* lines 44-47, up to the await, or to the return of line 56
IdSupplied(v) == Truthy(v)
FromVideo(f) ==
  LET g == [f EXCEPT !.video = Default(options.video, Bool(FALSE)),
                     !.camId = options.camId]
  IN  IF IdSupplied(options.camId)
      THEN [g EXCEPT !.camLookup = Pending,
                     !.calls = Append(f.calls,
                                 [id |-> options.camId.s,
                                  label |-> Default(options.camLabel, Str(<<>>)).s,
                                  kind |-> "Video"]),
                     !.pc = "awaitCam"]
      ELSE Return(g)

\* lines 35-47, once the microphone lookup has settled
AfterMic(f) ==
  LET p == CatchNull(f.micLookup)
  IN  IF p.state = "rejected" THEN Throw(f)
      ELSE FromVideo(Narrow([f EXCEPT !.micId = p.value], "audio", f.audio, p.value,
                            "newAudio"))

\* lines 32-35, up to the first await, or on to line 44
FromStart(f) ==
  LET g == [f EXCEPT !.audio = Default(options.audio, Bool(TRUE)),
                     !.micId = options.micId]
  IN  IF IdSupplied(options.micId)
      THEN [g EXCEPT !.micLookup = Pending,
                     !.calls = Append(f.calls,
                                 [id |-> options.micId.s,
                                  label |-> Default(options.micLabel, Str(<<>>)).s,
                                  kind |-> "AudioIn"]),
                     !.pc = "awaitMic"]
      ELSE FromVideo(g)

\* the variables after a step that leaves the frame f
Store(f) ==
  /\ heap' = f.heap
  /\ pc' = f.pc
  /\ audio' = f.audio
  /\ micId' = f.micId
  /\ video' = f.video
  /\ camId' = f.camId
  /\ micLookup' = f.micLookup
  /\ camLookup' = f.camLookup
  /\ calls' = f.calls
  /\ promise' = f.promise
  /\ UNCHANGED <<options, heap0, mungeVars, canvasVars>>

\* the device ids of the model
DevA == <<"a">>
DevB == <<"b">>
DevOld == <<"0">>

\* what assureDeviceId may resolve with
ResolvedIds == { Str(DevA), Str(DevB), Str(<<>>), Null }

\* the caller's constraint objects
CallerObjects ==
  { [deviceId |-> Undefined, echoCancellation |-> Bool(TRUE)],
    [deviceId |-> Exact(DevOld), echoCancellation |-> Undefined] }

\* options.audio / options.video with the heap holding the caller's object
MediumInputs(ref) ==
  { [value |-> v, heap |-> <<>>] : v \in {Undefined, Bool(TRUE), Bool(FALSE)} } \cup
  { [value |-> Ref(ref), heap |-> (ref :> o)] : o \in CallerObjects }

\* options.video being the very object passed as options.audio
SameObject(a) == IF a.value.t = "object" THEN {a} ELSE {}

RequestedIds == { Undefined, Str(<<>>), Str(DevA) }
Labels == { Undefined, Str(<<"B">>) }

MediaInit ==
  /\ \E a \in MediumInputs("optAudio") :
     \E v \in MediumInputs("optVideo") \cup SameObject(a) :
       /\ options \in { [audio |-> a.value, micId |-> mi, micLabel |-> ml,
                         video |-> v.value, camId |-> ci, camLabel |-> cl]
                          : mi \in RequestedIds, ml \in Labels,
                            ci \in RequestedIds, cl \in Labels }
       /\ heap = a.heap @@ v.heap
       /\ heap0 = a.heap @@ v.heap
  /\ pc = "call"
  /\ audio = Undefined
  /\ micId = Undefined
  /\ video = Undefined
  /\ camId = Undefined
  /\ micLookup = Idle
  /\ camLookup = Idle
  /\ calls = <<>>
  /\ promise = [state |-> "none"]
  \* the other functions are not called
  /\ layouts = <<>>
  /\ layoutGroups = <<>>
  /\ mungePc = "idle"
  /\ mungeResult = <<>>
  /\ canvasInfo = [canvasID |-> 0, layoutFloorID |-> 0, scale |-> 1,
                   canvasLayouts |-> <<>>, layoutName |-> "none"]
  /\ canvasPc = "idle"
  /\ canvasOutcome = [status |-> "none"]

\* the call getMediaConstraints(options): runs to the first await, or to the return
getMediaConstraints ==
  /\ pc = "call"
  /\ Store(FromStart([Frame EXCEPT !.promise = [state |-> "pending"]]))

\* assureDeviceId(micId, micLabel, DeviceType.AudioIn) resolves
MicResolves ==
  /\ micLookup = Pending
  /\ \E id \in ResolvedIds : micLookup' = Resolved(id)
  /\ UNCHANGED <<options, heap, heap0, pc, audio, micId, video, camId, camLookup,
                 calls, promise, mungeVars, canvasVars>>

\* assureDeviceId(micId, micLabel, DeviceType.AudioIn) rejects
MicRejects ==
  /\ micLookup = Pending
  /\ micLookup' = Rejected
  /\ UNCHANGED <<options, heap, heap0, pc, audio, micId, video, camId, camLookup,
                 calls, promise, mungeVars, canvasVars>>

\* the function resumes after the await of line 35
ResumeAfterMic ==
  /\ pc = "awaitMic"
  /\ Settled(micLookup)
  /\ Store(AfterMic(Frame))

\* assureDeviceId(camId, camLabel, DeviceType.Video) resolves
CamResolves ==
  /\ camLookup = Pending
  /\ \E id \in ResolvedIds : camLookup' = Resolved(id)
  /\ UNCHANGED <<options, heap, heap0, pc, audio, micId, video, camId, micLookup,
                 calls, promise, mungeVars, canvasVars>>

\* assureDeviceId(camId, camLabel, DeviceType.Video) rejects
CamRejects ==
  /\ camLookup = Pending
  /\ camLookup' = Rejected
  /\ UNCHANGED <<options, heap, heap0, pc, audio, micId, video, camId, micLookup,
                 calls, promise, mungeVars, canvasVars>>

\* the function resumes after the await of line 47
ResumeAfterCam ==
  /\ pc = "awaitCam"
  /\ Settled(camLookup)
  /\ Store(AfterCam(Frame))

(***************************************************************************)
(* Specifications: one per function                                        *)
(***************************************************************************)
SpecMunge == MungeInit /\ [][mungeLayoutList]_vars

SpecCanvas == CanvasInit /\ [][mutateCanvasInfoData]_vars

MediaNext ==
  \/ getMediaConstraints
  \/ MicResolves
  \/ MicRejects
  \/ ResumeAfterMic
  \/ CamResolves
  \/ CamRejects
  \/ ResumeAfterCam

SpecMedia == MediaInit /\ [][MediaNext]_vars

(***************************************************************************)
(* Properties of mungeLayoutList (under SpecMunge)                         *)
(***************************************************************************)
LowerLabel(e) == ToLowerCase(e.label)

\* the entries of list whose lowercased label is l, in the order of list
WithLowerLabel(list, l) == SelectSeq(list, LAMBDA e : LowerLabel(e) = l)

\* the sequence line 216 sorts: the group entries in input order, then the
\* flat-layout entries in input order
PreSort == GroupList(layoutGroups) \o NormalList(layouts, layoutGroups)

\* C1: the result is ordered by lowercased label, ascending (for adjacent
\* entries a, b: lower(a.label) <= lower(b.label)), and the entries of equal
\* lowercased label are in the order they have in the pre-sort sequence
C1_SortedStable ==
  mungePc = "done" =>
    /\ \A i \in 1..(Len(mungeResult) - 1) :
         ~StrLess(LowerLabel(mungeResult[i + 1]), LowerLabel(mungeResult[i]))
    /\ \A i \in 1..Len(mungeResult) :
         WithLowerLabel(mungeResult, LowerLabel(mungeResult[i]))
           = WithLowerLabel(PreSort, LowerLabel(mungeResult[i]))

\* a result of four entries with a strictly ascending adjacent pair whose raw
\* labels are in the opposite code-unit order, a tie group-then-flat and a tie
\* of two flat entries of different ids
C1_Witness ==
  /\ mungePc = "done"
  /\ Len(mungeResult) = 4
  /\ \E i \in 1..3 :
       /\ StrLess(LowerLabel(mungeResult[i]), LowerLabel(mungeResult[i + 1]))
       /\ StrLess(mungeResult[i + 1].label, mungeResult[i].label)
  /\ \E i \in 1..3 :
       /\ LowerLabel(mungeResult[i]) = LowerLabel(mungeResult[i + 1])
       /\ mungeResult[i].type = "layoutGroup"
       /\ mungeResult[i + 1].type = "layout"
  /\ \E i \in 1..3 :
       /\ LowerLabel(mungeResult[i]) = LowerLabel(mungeResult[i + 1])
       /\ mungeResult[i].type = "layout"
       /\ mungeResult[i + 1].type = "layout"
       /\ mungeResult[i].id # mungeResult[i + 1].id

\* id occurs in the groupLayouts of at least one element of layoutGroups
InSomeGroup(id) ==
  \E g \in 1..Len(layoutGroups) :
    /\ layoutGroups[g].groupLayouts.t = "array"
    /\ \E k \in 1..Len(layoutGroups[g].groupLayouts.a) :
         layoutGroups[g].groupLayouts.a[k] = id

\* C2: a flat-layout entry has belongsToAGroup = TRUE iff its id occurs in
\* some group's groupLayouts; a group entry has belongsToAGroup = FALSE
C2_MembershipFlag ==
  mungePc = "done" =>
    \A i \in 1..Len(mungeResult) :
      IF mungeResult[i].type = "layout"
      THEN mungeResult[i].belongsToAGroup = InSomeGroup(mungeResult[i].id)
      ELSE mungeResult[i].belongsToAGroup = FALSE

\* a flagged flat entry, an unflagged flat entry, a group entry whose own name
\* is listed in a group, and a group without groupLayouts
C2_Witness ==
  /\ mungePc = "done"
  /\ \E i \in 1..Len(mungeResult) :
       mungeResult[i].type = "layout" /\ mungeResult[i].belongsToAGroup
  /\ \E i \in 1..Len(mungeResult) :
       mungeResult[i].type = "layout" /\ ~mungeResult[i].belongsToAGroup
  /\ \E i \in 1..Len(mungeResult) :
       /\ mungeResult[i].type = "layoutGroup"
       /\ InSomeGroup(mungeResult[i].id)
       /\ ~mungeResult[i].belongsToAGroup
  /\ \E g \in 1..Len(layoutGroups) : layoutGroups[g].groupLayouts = Undefined

\* how many elements of list satisfy Test
Count(list, Test(_)) == Cardinality({i \in 1..Len(list) : Test(list[i])})

\* C3: the result has layouts.length + layoutGroups.length entries and its
\* multiset of ids is the multiset of the input names
C3_Complete ==
  mungePc = "done" =>
    /\ Len(mungeResult) = Len(layouts) + Len(layoutGroups)
    /\ \A n \in LayoutNames \cup GroupNames :
         Count(mungeResult, LAMBDA e : e.id = n)
           = Count(layouts, LAMBDA l : l.name = n)
             + Count(layoutGroups, LAMBDA g : g.name = n)

\* two raw layouts of the same name and a group of that name too
C3_Witness ==
  /\ mungePc = "done"
  /\ Len(layouts) = 2
  /\ layouts[1].name = layouts[2].name
  /\ \E g \in 1..Len(layoutGroups) : layoutGroups[g].name = layouts[1].name
  /\ Len(mungeResult) >= 3

(***************************************************************************)
(* Properties of mutateCanvasInfoData (under SpecCanvas)                   *)
(***************************************************************************)
\* C4: with scale <= 0 the call fails with InvalidArgument and returns no canvas
C4_InvalidArgument ==
  (canvasPc = "done" /\ canvasInfo.scale <= 0) =>
    /\ canvasOutcome.status = "threw"
    /\ canvasOutcome.error = "InvalidArgument"

\* C5: layoutOverlap is TRUE iff some element of the input canvasLayouts has
\* overlap equal to the number 1
C5_OverlapLaw ==
  canvasPc = "done" =>
    canvasOutcome.value.layoutOverlap
      = (\E i \in 1..Len(canvasInfo.canvasLayouts) :
           /\ canvasInfo.canvasLayouts[i].overlap.t = "number"
           /\ canvasInfo.canvasLayouts[i].overlap.n = 1)

\* a call with the overlaps ["1", 1]: the string does not count, the number does
C5_Witness ==
  /\ canvasPc = "done"
  /\ Len(canvasInfo.canvasLayouts) = 2
  /\ canvasInfo.canvasLayouts[1].overlap = Str(<<"1">>)
  /\ canvasInfo.canvasLayouts[2].overlap = Num(1)
  /\ canvasOutcome.value.layoutOverlap
  /\ canvasOutcome.value.canvasLayouts[1].overlap = Str(<<"1">>)

\* the integer a string of decimal digits denotes
RECURSIVE DigitsValue(_, _)
DigitsValue(s, acc) ==
  IF s = <<>> THEN acc ELSE DigitsValue(Tail(s), 10 * acc + (Code[Head(s)] - 48))
ParseInt(s) == IF s # <<>> /\ Head(s) = "-" THEN -DigitsValue(Tail(s), 0) ELSE DigitsValue(s, 0)

\* C6: the output canvasLayouts has the length of the input, and element i
\* carries input element i's member id (as a string) and audioPOS/xPOS/yPOS
C6_OrderPreserved ==
  canvasPc = "done" =>
    /\ Len(canvasOutcome.value.canvasLayouts) = Len(canvasInfo.canvasLayouts)
    /\ \A i \in 1..Len(canvasInfo.canvasLayouts) :
         LET in == canvasInfo.canvasLayouts[i]
             out == canvasOutcome.value.canvasLayouts[i]
         IN  /\ out.participantId # <<>>
             /\ \A k \in 1..Len(out.participantId) :
                  Code[out.participantId[k]] \in 48..57
             /\ ParseInt(out.participantId) = in.memberID
             /\ out.audioPos = in.audioPOS
             /\ out.xPos = in.xPOS
             /\ out.yPos = in.yPOS

(***************************************************************************)
(* Properties of getMediaConstraints (under SpecMedia)                     *)
(***************************************************************************)
\* a value as its holder sees it: a boolean, or the fields of the object referred to
View(v, h) == IF v.t = "object" THEN [t |-> "object", fields |-> h[v.r]] ELSE v

\* what the caller passed for each medium (or the default), as it was at the call
CallerAudio == View(Default(options.audio, Bool(TRUE)), heap0)
CallerVideo == View(Default(options.video, Bool(FALSE)), heap0)

\* what the fulfilled promise holds for each medium
ReturnedAudio == View(promise.value.audio, heap)
ReturnedVideo == View(promise.value.video, heap)

\* the caller's value narrowed to the id the lookup resolved with, if it
\* resolved with a non-empty id; the caller's value otherwise
Expected(callerView, lookup) ==
  IF lookup.state = "resolved" /\ Truthy(lookup.value)
  THEN [t |-> "object",
        fields |-> [(IF callerView.t = "object" THEN callerView.fields ELSE EmptyObject)
                      EXCEPT !.deviceId = Exact(lookup.value.s)]]
  ELSE callerView

\* every lookup the options ask for has settled
LookupsSettled ==
  /\ Truthy(options.micId) => Settled(micLookup)
  /\ Truthy(options.camId) => Settled(camLookup)

\* C7: the promise is never rejected; once the lookups have settled the
\* function is fulfilled or about to resume; a medium whose lookup rejected is
\* returned as the caller gave it (or as the default), and the other medium is
\* returned as its own lookup decides
C7_NeverRejects ==
  /\ promise.state # "rejected"
  /\ (pc # "call" /\ LookupsSettled) =>
       \/ promise.state = "fulfilled"
       \/ ENABLED ResumeAfterMic
       \/ ENABLED ResumeAfterCam
  /\ pc = "done" =>
       /\ promise.state = "fulfilled"
       /\ micLookup = Rejected =>
            /\ ReturnedAudio = CallerAudio
            /\ ReturnedVideo = Expected(CallerVideo, camLookup)
       /\ camLookup = Rejected =>
            /\ ReturnedVideo = CallerVideo
            /\ ReturnedAudio = Expected(CallerAudio, micLookup)

\* C8: with micId and camId both supplied the camera lookup is started without
\* waiting for the microphone lookup: while the microphone lookup is in flight
\* the camera lookup has been issued
C8_LookupsConcurrent ==
  (Truthy(options.micId) /\ Truthy(options.camId) /\ micLookup = Pending) =>
    camLookup # Idle

\* C9: a lookup is issued for a medium iff a non-empty id was supplied for it;
\* when it resolves with a non-empty id r the returned value is the caller's
\* constraint object (an empty one for a boolean) with deviceId = { exact: r };
\* otherwise the value is returned as the caller gave it
C9_Narrowing ==
  /\ micLookup # Idle => Truthy(options.micId)
  /\ camLookup # Idle => Truthy(options.camId)
  /\ pc = "done" =>
       /\ micLookup # Idle <=> Truthy(options.micId)
       /\ camLookup # Idle <=> Truthy(options.camId)
       /\ Len(calls) = (IF Truthy(options.micId) THEN 1 ELSE 0)
                         + (IF Truthy(options.camId) THEN 1 ELSE 0)
       /\ promise.state = "fulfilled"
       /\ ReturnedAudio = Expected(CallerAudio, micLookup)
       /\ ReturnedVideo = Expected(CallerVideo, camLookup)

\* C10: the constraint objects the caller passed in are as they were at the call
C10_OptionsUnchanged ==
  \A r \in DOMAIN heap0 : heap[r] = heap0[r]

====
